---- MODULE Spec2Model ----
(***************************************************************************)
(* Model of app.py: the Spotify decade dashboard.                          *)
(*                                                                         *)
(*   load_data / get_period   release date -> year -> decade label, filter *)
(*   z_test_proportions       pooled two-proportion z-test                 *)
(*   tab5                     the comparison tool (t-test / z-test) and    *)
(*                            the significance verdict it prints           *)
(*                                                                         *)
(* Numbers.  Python floats are modelled as extended rationals: a pair      *)
(* <<n, d>> with d >= 0 in lowest terms; <<0,0>> is NaN, <<1,0>> is +inf   *)
(* and <<-1,0>> is -inf.  Arithmetic is exact (no rounding).               *)
(*                                                                         *)
(* Square roots.  A statistic x = num / sqrt(radicand) is stored as its    *)
(* signed square sgn(x) * x^2, which is a strictly increasing function of  *)
(* x: x = 0, the sign of x, -x and |x| are read off the signed square.     *)
(*                                                                         *)
(* p-values.  p = 2 * (1 - CDF(|x|)) is stored as the pair (x^2, df) it is *)
(* computed from (df = +inf for the normal distribution); p = 1 exactly    *)
(* when x = 0, and p < 0.05 exactly when |x| exceeds the 97.5% quantile.   *)
(***************************************************************************)
EXTENDS Integers, Sequences, FiniteSets, TLC

VARIABLES csv, df, df_unique, shown, args, ret, pc

vars == <<csv, df, df_unique, shown, args, ret, pc>>

\* the value of a variable the running specification does not use
Idle == <<>>

(***************************************************************************)
(* Bounds of the model.                                                    *)
(***************************************************************************)
YearMargin == 6     \* years drawn: 1991 - YearMargin .. 2020 + YearMargin
MaxN       == 10    \* z-test sample sizes 0 .. MaxN, counts 0 .. MaxN + 1
MaxLen     == 3     \* t-test / category samples have at most MaxLen rows
MaxVal     == 2     \* numeric sample values 0 .. MaxVal (and NaN)
MaxRows    == 3     \* rows of spotify_songs.csv

(***************************************************************************)
(* Extended rationals (Python / numpy float semantics, exact).             *)
(***************************************************************************)
Abs(x) == IF x < 0 THEN -x ELSE x

Sgn(x) == IF x < 0 THEN -1 ELSE IF x > 0 THEN 1 ELSE 0

RECURSIVE Gcd(_, _)
Gcd(a, b) == IF b = 0 THEN a ELSE Gcd(b, a % b)

NaN == <<0, 0>>

PosInf == <<1, 0>>

Zero == <<0, 1>>

One == <<1, 1>>

\* the float n / d in lowest terms; d = 0 gives +-inf, or NaN for 0 / 0
Num(n, d) ==
    IF d = 0 THEN <<Sgn(n), 0>>
    ELSE LET g == Gcd(Abs(n), Abs(d))
             s == Sgn(d)
         IN  <<(s * n) \div g, (s * d) \div g>>

FInt(n) == <<n, 1>>

IsNaN(x) == x = NaN

IsInf(x) == x[2] = 0 /\ x[1] # 0

FNeg(x) == <<-x[1], x[2]>>

FAbs(x) == <<Abs(x[1]), x[2]>>

FAdd(a, b) ==
    IF IsNaN(a) \/ IsNaN(b) THEN NaN
    ELSE IF IsInf(a) /\ IsInf(b) THEN (IF a = b THEN a ELSE NaN)
    ELSE Num(a[1] * b[2] + b[1] * a[2], a[2] * b[2])

FSub(a, b) == FAdd(a, FNeg(b))

FMul(a, b) ==
    IF IsNaN(a) \/ IsNaN(b) THEN NaN
    ELSE Num(a[1] * b[1], a[2] * b[2])

\* numpy float division: x / 0 is +-inf, 0 / 0 is NaN, no exception
FDiv(a, b) ==
    IF IsNaN(a) \/ IsNaN(b) THEN NaN
    ELSE Num(a[1] * b[2] * (IF b[1] < 0 THEN -1 ELSE 1), a[2] * Abs(b[1]))

\* a < b; every comparison with NaN is False
FLt(a, b) ==
    /\ ~IsNaN(a)
    /\ ~IsNaN(b)
    /\ IF IsInf(a) /\ IsInf(b) THEN a[1] < b[1]
       ELSE IF IsInf(a) THEN a[1] < 0
       ELSE IF IsInf(b) THEN b[1] > 0
       ELSE a[1] * b[2] < b[1] * a[2]

FLe(a, b) == ~IsNaN(a) /\ ~IsNaN(b) /\ (a = b \/ FLt(a, b))

FGt(a, b) == FLt(b, a)

\* sgn(x) * x^2 : the signed square of a rational x
SignedSquare(x) == FMul(x, FAbs(x))

(***************************************************************************)
(* Strings are sequences of one-character strings.                         *)
(***************************************************************************)
DigitChar == <<"0", "1", "2", "3", "4", "5", "6", "7", "8", "9">>

IsDigit(c) == \E k \in 1..10 : DigitChar[k] = c

DigitVal(c) == (CHOOSE k \in 1..10 : DigitChar[k] = c) - 1

\* "YYYY" for a year 0 .. 9999, as the dataset writes it
YearChars(y) ==
    << DigitChar[((y \div 1000) % 10) + 1], DigitChar[((y \div 100) % 10) + 1],
       DigitChar[((y \div 10) % 10) + 1], DigitChar[(y % 10) + 1] >>

\* .str[:4]
Str4(s) == SubSeq(s, 1, IF Len(s) < 4 THEN Len(s) ELSE 4)

RECURSIVE DecimalValue(_)
DecimalValue(s) ==
    IF s = <<>> THEN 0
    ELSE 10 * DecimalValue(SubSeq(s, 1, Len(s) - 1)) + DigitVal(s[Len(s)])

\* pd.to_numeric(..., errors='coerce') of one string cell: an unsigned decimal
\* integer parses, anything else the model draws ("nan", "", "1/5/") is NaN
to_numeric(s) ==
    IF s # <<>> /\ \A i \in 1..Len(s) : IsDigit(s[i])
    THEN FInt(DecimalValue(s))
    ELSE NaN

\* df['year'] for one row
year_of(date) == to_numeric(Str4(date))

(***************************************************************************)
(* load_data.get_period                                                    *)
(***************************************************************************)
P1 == "1991 - 2000"

P2 == "2001 - 2010"

P3 == "2011 - 2020"

Outros == "Outros"

Decades == {P1, P2, P3}

\* variant: half-open intervals
get_periodStrict(year) ==
    IF FLe(FInt(1991), year) /\ FLt(year, FInt(2000)) THEN P1
    ELSE IF FLe(FInt(2001), year) /\ FLt(year, FInt(2010)) THEN P2
    ELSE IF FLe(FInt(2011), year) /\ FLt(year, FInt(2020)) THEN P3
    ELSE Outros

get_period(year) ==
    IF FLe(FInt(1991), year) /\ FLe(year, FInt(2000)) THEN P1
    ELSE IF FLe(FInt(2001), year) /\ FLe(year, FInt(2010)) THEN P2
    ELSE IF FLe(FInt(2011), year) /\ FLe(year, FInt(2020)) THEN P3
    ELSE Outros

(***************************************************************************)
(* z_test_proportions                                                      *)
(***************************************************************************)
NoExc == "none"

\* a p-value 2 * (1 - CDF_df(|x|)), kept as x^2 and df
PValue(sq, dof) == [sq |-> FAbs(sq), dof |-> IF IsNaN(sq) THEN NaN ELSE dof]

\* the literal 1.0 = 2 * (1 - CDF(0))
POne == PValue(Zero, PosInf)

PNaN == PValue(NaN, NaN)

ZResult(exc, z, p, p1, p2) == [exc |-> exc, z |-> z, p_value |-> p, p1 |-> p1, p2 |-> p2]

ZRaise(exc) == ZResult(exc, NaN, PNaN, NaN, NaN)

\* np.sqrt(x) == 0 ; np.sqrt of a negative number is NaN
SqrtIsZero(radicand) == radicand = Zero

\* num / np.sqrt(radicand), as a signed square
DivBySqrt(num, radicand) ==
    IF IsNaN(radicand) \/ FLt(radicand, Zero) THEN NaN
    ELSE FDiv(SignedSquare(num), radicand)

\* variant: without the se == 0 return of line 55
z_test_proportionsNoGuard(count1, nobs1, count2, nobs2) ==
    IF nobs1 = 0 \/ nobs2 = 0 THEN ZRaise("ZeroDivisionError")
    ELSE LET p1 == Num(count1, nobs1)
             p2 == Num(count2, nobs2)
             p_pool == Num(count1 + count2, nobs1 + nobs2)
             se2 == FMul(FMul(p_pool, FSub(One, p_pool)),
                         FAdd(Num(1, nobs1), Num(1, nobs2)))
             z == DivBySqrt(FSub(p1, p2), se2)
         IN  ZResult(NoExc, z, PValue(z, PosInf), p1, p2)

\* variant: the standard error taken from the first group alone
z_test_proportionsPoolFirst(count1, nobs1, count2, nobs2) ==
    IF nobs1 = 0 \/ nobs2 = 0 THEN ZRaise("ZeroDivisionError")
    ELSE LET p1 == Num(count1, nobs1)
             p2 == Num(count2, nobs2)
             p_pool == Num(count1 + count2, nobs1 + nobs2)
             se2 == FMul(FMul(p1, FSub(One, p1)),
                         FAdd(Num(1, nobs1), Num(1, nobs2)))
             z == DivBySqrt(FSub(p1, p2), se2)
         IN  IF SqrtIsZero(se2) THEN ZResult(NoExc, Zero, POne, p1, p2)
             ELSE ZResult(NoExc, z, PValue(z, PosInf), p1, p2)

\* count / nobs on Python ints raises ZeroDivisionError for nobs = 0 (line 51
\* for nobs1, line 52 for nobs2); nothing else is validated
z_test_proportions(count1, nobs1, count2, nobs2) ==
    IF nobs1 = 0 \/ nobs2 = 0 THEN ZRaise("ZeroDivisionError")
    ELSE LET p1 == Num(count1, nobs1)
             p2 == Num(count2, nobs2)
             p_pool == Num(count1 + count2, nobs1 + nobs2)
             se2 == FMul(FMul(p_pool, FSub(One, p_pool)),
                         FAdd(Num(1, nobs1), Num(1, nobs2)))
             z == DivBySqrt(FSub(p1, p2), se2)
         IN  IF SqrtIsZero(se2) THEN ZResult(NoExc, Zero, POne, p1, p2)
             ELSE ZResult(NoExc, z, PValue(z, PosInf), p1, p2)

(***************************************************************************)
(* tab5, numeric branch: Series.dropna / Series.mean and the call          *)
(* ttest_ind(d1, d2, equal_var=False) of scipy.stats (Welch's t-test),     *)
(* which raises nothing: an empty sample or a sample of one value gives a  *)
(* NaN statistic and p-value, a zero denominator gives NaN (equal means)   *)
(* or +-inf with p = 0 (different means).                                  *)
(***************************************************************************)
dropna(s) == SelectSeq(s, LAMBDA x : ~IsNaN(x))

RECURSIVE Sum(_)
Sum(s) == IF s = <<>> THEN Zero ELSE FAdd(s[1], Sum(Tail(s)))

\* Series.mean(): NaN for an empty series
mean(s) == FDiv(Sum(s), FInt(Len(s)))

RECURSIVE SumSqDev(_, _)
SumSqDev(s, m) ==
    IF s = <<>> THEN Zero
    ELSE FAdd(FMul(FSub(s[1], m), FSub(s[1], m)), SumSqDev(Tail(s), m))

\* np.var(a, ddof=1): 0 / 0 = NaN for a single value
var_ddof1(s) == FDiv(SumSqDev(s, mean(s)), FInt(Len(s) - 1))

TResult(stat, p) == [statistic |-> stat, pvalue |-> p]

ttest_ind(a, b) ==
    IF a = <<>> \/ b = <<>> THEN TResult(NaN, PNaN)
    ELSE LET n1 == Len(a)
             n2 == Len(b)
             vn1 == FDiv(var_ddof1(a), FInt(n1))
             vn2 == FDiv(var_ddof1(b), FInt(n2))
             dofraw == FDiv(FMul(FAdd(vn1, vn2), FAdd(vn1, vn2)),
                            FAdd(FDiv(FMul(vn1, vn1), FInt(n1 - 1)),
                                 FDiv(FMul(vn2, vn2), FInt(n2 - 1))))
             dof == IF IsNaN(dofraw) THEN One ELSE dofraw
             t == DivBySqrt(FSub(mean(a), mean(b)), FAdd(vn1, vn2))
         IN  TResult(t, PValue(t, dof))

(***************************************************************************)
(* p_val < 0.05.  |x| > q(df), the 97.5% quantile, i.e. x^2 > q(df)^2.     *)
(* Crit2[k] is q(k)^2 * 10^4 rounded down for the t distribution with k    *)
(* degrees of freedom; NormCrit2 the same for the normal distribution.     *)
(* q decreases with df, so for a fractional Welch df the quantile lies     *)
(* between the table entries of the two neighbouring integers: where the   *)
(* table does not decide the comparison both outcomes are allowed.         *)
(***************************************************************************)
Crit2 == <<1614476, 185128, 101279, 77086, 66078, 59873, 55914, 53176, 51173, 49646>>

NormCrit2 == <<38414, 10000>>

CritLo(k) == IF k > Len(Crit2) THEN Num(NormCrit2[1], NormCrit2[2])
             ELSE Num(Crit2[k], NormCrit2[2])

CritHi(k) == IF k < 1 THEN PosInf
             ELSE IF k > Len(Crit2) THEN Num(Crit2[Len(Crit2)] + 1, NormCrit2[2])
             ELSE Num(Crit2[k] + 1, NormCrit2[2])

Floor(x) == x[1] \div x[2]

Ceil(x) == -((-x[1]) \div x[2])

\* the truth values p_val < 0.05 can take
SigOutcomes(p) ==
    IF IsNaN(p.sq) THEN {FALSE}
    ELSE IF IsInf(p.sq) THEN {TRUE}
    ELSE LET lo == IF IsInf(p.dof) THEN Num(NormCrit2[1], NormCrit2[2])
                   ELSE CritLo(Ceil(p.dof))
             hi == IF IsInf(p.dof) THEN Num(NormCrit2[1] + 1, NormCrit2[2])
                   ELSE CritHi(Floor(p.dof))
         IN  IF FGt(p.sq, hi) THEN {TRUE}
             ELSE IF FLe(p.sq, lo) THEN {FALSE}
             ELSE BOOLEAN

(***************************************************************************)
(* tab5: the two button handlers, given the rows of the two decades.       *)
(***************************************************************************)
NoDirecao == "-"

\* variant: the comparison reversed
direcaoSwapped(est1, est2) == IF FGt(est1, est2) THEN "aumentou" ELSE "diminuiu"

\* "aumentou" if m2 > m1 else "diminuiu"
direcao(est1, est2) == IF FGt(est2, est1) THEN "aumentou" ELSE "diminuiu"

NoZArgs == <<>>

Output(kind, exc, stat, p, est1, est2, sig, dir, zargs) ==
    [kind |-> kind, exc |-> exc, stat |-> stat, p_val |-> p, est1 |-> est1,
     est2 |-> est2, significant |-> sig, direcao |-> dir, zargs |-> zargs]

\* st.success(...) with the direction, or st.warning(...) without one
Interpret(kind, stat, p, est1, est2, zargs) ==
    { Output(kind, NoExc, stat, p, est1, est2, sig,
             IF sig THEN direcao(est1, est2) ELSE NoDirecao, zargs)
      : sig \in SigOutcomes(p) }

\* if st.button("Calcular Teste t"): ...
CalcularTesteT(col1, col2) ==
    LET d1 == dropna(col1)
        d2 == dropna(col2)
        r == ttest_ind(d1, d2)
    IN  Interpret("t", r.statistic, r.pvalue, mean(d1), mean(d2), NoZArgs)

NA == "<NA>"

NoneSel == "<None>"

\* Series.astype(str): a missing category prints as "nan"
astype_str(v) == IF v = NA THEN "nan" ELSE v

CountAlvo(col, alvo) == Len(SelectSeq(col, LAMBDA v : astype_str(v) = alvo))

\* if st.button("Calcular Teste de Proporção"): ...
CalcularTesteProporcao(col1, col2, alvo) ==
    LET count1 == CountAlvo(col1, alvo)
        total1 == Len(col1)
        count2 == CountAlvo(col2, alvo)
        total2 == Len(col2)
        zargs == <<count1, total1, count2, total2>>
        r == z_test_proportions(count1, total1, count2, total2)
    IN  IF r.exc # NoExc
        THEN {Output("z", r.exc, NaN, PNaN, NaN, NaN, FALSE, NoDirecao, zargs)}
        ELSE Interpret("z", r.z, r.p_value, r.p1, r.p2, zargs)

(***************************************************************************)
(* load_data and the module-level script.                                  *)
(*                                                                         *)
(* A row of spotify_songs.csv carries track_id, track_album_release_date,  *)
(* one categorical column (playlist_genre) and one numeric column          *)
(* (energy); the other columns are read the same way.                      *)
(***************************************************************************)
CsvRow(id, date, genre, energy) ==
    [track_id |-> id, track_album_release_date |-> date,
     playlist_genre |-> genre, energy |-> energy]

\* lines 26 and 39: the row with its derived columns
Derive(r) ==
    [track_id |-> r.track_id, track_album_release_date |-> r.track_album_release_date,
     playlist_genre |-> r.playlist_genre, energy |-> r.energy,
     year |-> year_of(r.track_album_release_date),
     periodo |-> get_period(year_of(r.track_album_release_date))]

RECURSIVE MapDerive(_)
MapDerive(rows) ==
    IF rows = <<>> THEN <<>> ELSE <<Derive(rows[1])>> \o MapDerive(Tail(rows))

DataFrame(none, rows) == [none |-> none, rows |-> rows]

\* variant: without the filter of line 42
load_dataNoFilter(file) ==
    IF ~file.exists THEN DataFrame(TRUE, <<>>)
    ELSE DataFrame(FALSE, MapDerive(file.rows))

\* FileNotFoundError gives None; otherwise the rows whose periodo is not
\* "Outros".  st.cache_data returns the same value on every later run.
load_data(file) ==
    IF ~file.exists THEN DataFrame(TRUE, <<>>)
    ELSE DataFrame(FALSE, SelectSeq(MapDerive(file.rows), LAMBDA r : r.periodo # Outros))

\* variant: no deduplication
drop_duplicatesKeepAll(rows) == rows

\* df.drop_duplicates(subset=['track_id']): the first row of each track_id
RECURSIVE drop_duplicates(_)
drop_duplicates(rows) ==
    IF rows = <<>> THEN <<>>
    ELSE LET init == SubSeq(rows, 1, Len(rows) - 1)
             last == rows[Len(rows)]
         IN  IF \E i \in 1..Len(init) : init[i].track_id = last.track_id
             THEN drop_duplicates(init)
             ELSE Append(drop_duplicates(init), last)

\* variant: every label offered, present or not
decadasAllLabels(rows) == <<P1, P2, P3>>

\* sorted(df_unique['periodo'].unique()); the labels sort as P1 < P2 < P3
decadas(rows) ==
    SelectSeq(<<P1, P2, P3>>, LAMBDA d : \E i \in 1..Len(rows) : rows[i].periodo = d)

\* df_unique[df_unique['periodo'] == decada]
RowsOf(rows, decada) == SelectSeq(rows, LAMBDA r : r.periodo = decada)

RECURSIVE Column(_, _)
Column(rows, col) ==
    IF rows = <<>> THEN <<>> ELSE <<rows[1][col]>> \o Column(Tail(rows), col)

\* sorted(df_unique[col].dropna().unique().astype(str)), as a set
valores(rows) ==
    {astype_str(rows[i].playlist_genre) : i \in {j \in 1..Len(rows) : rows[j].playlist_genre # NA}}

\* the group keys of the charts: tab1 / tab4 group df_unique by periodo,
\* tab2 groups df by periodo and genre, tab3 / tab4 group df_unique by year
Tabs(d, u) ==
    [periodo_keys |-> {u[i].periodo : i \in 1..Len(u)},
     genre_keys |-> {<<d[i].periodo, d[i].playlist_genre>> :
                        i \in {j \in 1..Len(d) : d[j].playlist_genre # NA}},
     year_keys |-> {u[i].year : i \in 1..Len(u)}]

NoTabs == [periodo_keys |-> {}, genre_keys |-> {}, year_keys |-> {}]

NoTest == Output("none", NoExc, NaN, PNaN, NaN, NaN, FALSE, NoDirecao, NoZArgs)

Page(kind, tabs, d1, d2, rows1, rows2, test) ==
    [kind |-> kind, tabs |-> tabs, decada_1 |-> d1, decada_2 |-> d2,
     df_d1 |-> rows1, df_d2 |-> rows2, test |-> test]

\* Track ids are opaque: the program only tests them for equality.
TrackIds == 1..MaxRows

\* release years of the files drawn: both sides of the 2000 / 2001 boundary
\* and one year past 2020; a missing date is the cell "nan"
AppYears == {2000, 2001, 2021}

AppDates ==
    {YearChars(y) \o <<"-", "0", "6">> : y \in AppYears} \cup { <<"n", "a", "n">> }

\* the cells of a row other than its track_id
CsvCells == [date : AppDates, genre : {"pop", "rock"}, energy : {One}]

\* ids numbered in order of first appearance: one file per renaming class
FirstAppearance(ids) ==
    \A i \in DOMAIN ids :
        \/ ids[i] = 1
        \/ \E j \in 1..(i - 1) : ids[j] >= ids[i] - 1

IdPatterns(n) == {q \in [1..n -> TrackIds] : FirstAppearance(q)}

CsvFile(ids, cells) ==
    [exists |-> TRUE,
     rows |-> [i \in DOMAIN ids |->
                 CsvRow(ids[i], cells[i].date, cells[i].genre, cells[i].energy)]]

NoCsvFile == [exists |-> FALSE, rows |-> <<>>]

Init ==
    /\ \/ csv = NoCsvFile
       \/ \E n \in 0..MaxRows :
             \E ids \in IdPatterns(n), cells \in [1..n -> CsvCells] :
                csv = CsvFile(ids, cells)
    /\ df = Idle
    /\ df_unique = Idle
    /\ shown = Idle
    /\ pc = "start"
    /\ args = Idle /\ ret = Idle

\* the part of a script run every page shares: lines 60 and 68-69
Load ==
    /\ df' = load_data(csv)
    /\ df_unique' = IF df'.none THEN Idle ELSE drop_duplicates(df'.rows)
    /\ pc' = "rendered"
    /\ UNCHANGED <<csv, args, ret>>

\* df is None: st.error and nothing else is rendered
RunFileMissing ==
    /\ Load
    /\ df'.none
    /\ shown' = Page("file_error", NoTabs, NoneSel, NoneSel, <<>>, <<>>, NoTest)

RunApresentacao ==
    /\ Load
    /\ ~df'.none
    /\ shown' = Page("apresentacao", NoTabs, NoneSel, NoneSel, <<>>, <<>>, NoTest)

\* the dashboard page when tab5 computes nothing.  With no decade at all both
\* select boxes give None; with a single decade index=1 is out of range and
\* st.selectbox raises; equal decades give the warning; otherwise the button
\* was not pressed in this run.
RunDashboardNoTest ==
    /\ Load
    /\ ~df'.none
    /\ LET u == df_unique'
           ds == decadas(u)
           tabs == Tabs(df'.rows, u)
       IN  \/ /\ Len(ds) = 0
              /\ shown' = Page("warning", tabs, NoneSel, NoneSel, <<>>, <<>>, NoTest)
           \/ /\ Len(ds) = 1
              /\ shown' = Page("exception", tabs, ds[1], NoneSel, <<>>, <<>>, NoTest)
           \/ /\ Len(ds) >= 2
              /\ \E i1 \in 1..Len(ds), i2 \in 1..Len(ds) :
                    IF ds[i1] = ds[i2]
                    THEN shown' = Page("warning", tabs, ds[i1], ds[i2], <<>>, <<>>, NoTest)
                    ELSE shown' = Page("idle", tabs, ds[i1], ds[i2],
                                       RowsOf(u, ds[i1]), RowsOf(u, ds[i2]), NoTest)

\* "Numerica" selected, two different decades, "Calcular Teste t" pressed
RunTesteT ==
    /\ Load
    /\ ~df'.none
    /\ LET u == df_unique'
           ds == decadas(u)
       IN  /\ Len(ds) >= 2
           /\ \E i1 \in 1..Len(ds), i2 \in 1..Len(ds) :
                 /\ ds[i1] # ds[i2]
                 /\ LET df_d1 == RowsOf(u, ds[i1])
                        df_d2 == RowsOf(u, ds[i2])
                    IN  \E t \in CalcularTesteT(Column(df_d1, "energy"), Column(df_d2, "energy")) :
                           shown' = Page("test", Tabs(df'.rows, u), ds[i1], ds[i2],
                                         df_d1, df_d2, t)

\* "Categorica" selected, two different decades, a target value chosen,
\* "Calcular Teste de Proporcao" pressed
RunTesteProporcao ==
    /\ Load
    /\ ~df'.none
    /\ LET u == df_unique'
           ds == decadas(u)
           alvos == IF valores(u) = {} THEN {NoneSel} ELSE valores(u)
       IN  /\ Len(ds) >= 2
           /\ \E i1 \in 1..Len(ds), i2 \in 1..Len(ds), alvo \in alvos :
                 /\ ds[i1] # ds[i2]
                 /\ LET df_d1 == RowsOf(u, ds[i1])
                        df_d2 == RowsOf(u, ds[i2])
                    IN  \E t \in CalcularTesteProporcao(Column(df_d1, "playlist_genre"),
                                                        Column(df_d2, "playlist_genre"), alvo) :
                           shown' = Page("test", Tabs(df'.rows, u), ds[i1], ds[i2],
                                         df_d1, df_d2, t)

Next ==
    \/ RunFileMissing
    \/ RunApresentacao
    \/ RunDashboardNoTest
    \/ RunTesteT
    \/ RunTesteProporcao

Spec == Init /\ [][Next]_vars

(***************************************************************************)
(* Pure-function harness: the period classifier on one release date.       *)
(***************************************************************************)
Years == (1991 - YearMargin)..(2020 + YearMargin)

DateStrings ==
    {YearChars(y) \o <<"-", "0", "6", "-", "1", "5">> : y \in Years}
    \cup {YearChars(y) : y \in Years}
    \cup { <<"n", "a", "n">>, <<>>, <<"1", "9", "9">>,
           <<"1", "/", "5", "/", "2", "0", "0", "1">> }

InitPeriod ==
    /\ args \in DateStrings
    /\ ret = Idle
    /\ pc = "input"
    /\ csv = Idle /\ df = Idle /\ df_unique = Idle /\ shown = Idle

\* lines 26 and 39 applied to one row
ClassifyPeriod ==
    /\ pc = "input"
    /\ ret' = [year |-> year_of(args), periodo |-> get_period(year_of(args))]
    /\ pc' = "done"
    /\ UNCHANGED <<csv, df, df_unique, shown, args>>

NextPeriod == ClassifyPeriod

SpecPeriod == InitPeriod /\ [][NextPeriod]_vars

(***************************************************************************)
(* Pure-function harness: z_test_proportions, then the same call with the  *)
(* two groups swapped.                                                     *)
(***************************************************************************)
ZArgs == [count1 : 0..(MaxN + 1), nobs1 : 0..MaxN, count2 : 0..(MaxN + 1), nobs2 : 0..MaxN]

InitZ ==
    /\ args \in ZArgs
    /\ ret = <<>>
    /\ pc = "input"
    /\ csv = Idle /\ df = Idle /\ df_unique = Idle /\ shown = Idle

ZCall ==
    /\ pc = "input"
    /\ ret' = <<z_test_proportions(args.count1, args.nobs1, args.count2, args.nobs2)>>
    /\ pc' = "called"
    /\ UNCHANGED <<csv, df, df_unique, shown, args>>

ZCallSwapped ==
    /\ pc = "called"
    /\ ret' = Append(ret, z_test_proportions(args.count2, args.nobs2, args.count1, args.nobs1))
    /\ pc' = "swapped"
    /\ UNCHANGED <<csv, df, df_unique, shown, args>>

NextZ == ZCall \/ ZCallSwapped

SpecZ == InitZ /\ [][NextZ]_vars

(***************************************************************************)
(* Handler harness: one button press of tab5 on the rows of two decades    *)
(* (the selected column of df_d1 and of df_d2, neither empty).             *)
(***************************************************************************)
NumVals == {FInt(v) : v \in 0..MaxVal} \cup {NaN}

CatVals == {"pop", "rock", NA}

Columns(S) == UNION {[1..n -> S] : n \in 1..MaxLen}

CompareArgs ==
    [tipo : {"Numerica"}, col1 : Columns(NumVals), col2 : Columns(NumVals), alvo : {NoneSel}]
    \cup [tipo : {"Categorica"}, col1 : Columns(CatVals), col2 : Columns(CatVals),
          alvo : {"pop", "rock", NoneSel}]

InitCompare ==
    /\ args \in CompareArgs
    /\ shown = Idle
    /\ pc = "input"
    /\ csv = Idle /\ df = Idle /\ df_unique = Idle /\ ret = Idle

PressTesteT ==
    /\ pc = "input"
    /\ args.tipo = "Numerica"
    /\ shown' \in CalcularTesteT(args.col1, args.col2)
    /\ pc' = "done"
    /\ UNCHANGED <<csv, df, df_unique, args, ret>>

PressTesteProporcao ==
    /\ pc = "input"
    /\ args.tipo = "Categorica"
    /\ shown' \in CalcularTesteProporcao(args.col1, args.col2, args.alvo)
    /\ pc' = "done"
    /\ UNCHANGED <<csv, df, df_unique, args, ret>>

NextCompare == PressTesteT \/ PressTesteProporcao

SpecCompare == InitCompare /\ [][NextCompare]_vars

\* the comparator's documented precondition
ZValid(a) ==
    /\ a.nobs1 > 0 /\ a.nobs2 > 0
    /\ a.count1 <= a.nobs1 /\ a.count2 <= a.nobs2

YearIn(y, lo, hi) == y[2] = 1 /\ lo <= y[1] /\ y[1] <= hi

\* C1: the period classifier is total and uses closed intervals: a year in
\* [1991,2000] gets the first decade label, [2001,2010] the second,
\* [2011,2020] the third, and every other year, a missing one included, gets
\* the exclusion label.
C1_ClosedIntervals ==
    pc = "done" =>
        /\ ret.periodo \in Decades \cup {Outros}
        /\ ret.periodo = P1 <=> YearIn(ret.year, 1991, 2000)
        /\ ret.periodo = P2 <=> YearIn(ret.year, 2001, 2010)
        /\ ret.periodo = P3 <=> YearIn(ret.year, 2011, 2020)
        /\ ret.periodo = Outros <=> ~YearIn(ret.year, 1991, 2020)

C1_Witness ==
    /\ pc = "done"
    /\ Len(args) > 4
    /\ ret.year = FInt(2000)
    /\ ret.periodo = P1

Degenerate(a) ==
    \/ a.count1 + a.count2 = 0
    \/ a.count1 + a.count2 = a.nobs1 + a.nobs2

IsRatio(x, c, n) == x[2] > 0 /\ x[1] * n = c * x[2]

\* C3: on valid input whose pooled proportion is 0 or 1 the comparator raises
\* nothing and returns z = 0, p = 1 and the two proportions count/n.
C3_DegenerateNeutral ==
    (pc # "input" /\ ZValid(args) /\ Degenerate(args)) =>
        /\ ret[1].exc = NoExc
        /\ ret[1].z = Zero
        /\ ret[1].p_value.sq = Zero
        /\ IsRatio(ret[1].p1, args.count1, args.nobs1)
        /\ IsRatio(ret[1].p2, args.count2, args.nobs2)

C3_Witness ==
    /\ pc = "called"
    /\ args = [count1 |-> 5, nobs1 |-> 5, count2 |-> 5, nobs2 |-> 5]
    /\ ret[1].z = Zero
    /\ ret[1].p1 = One

\* C4: the comparator raises an error, and returns no result, whenever a
\* sample size is 0 or a count exceeds its sample size.
C4_InvalidInputRaises ==
    (pc # "input" /\ ~ZValid(args)) => ret[1].exc # NoExc

\* C6: on valid input, swapping the groups negates z, keeps p and swaps the
\* returned proportions.
C6_SwapNegates ==
    (pc = "swapped" /\ ZValid(args)) =>
        /\ ret[1].exc = NoExc /\ ret[2].exc = NoExc
        /\ ret[2].z = FNeg(ret[1].z)
        /\ ret[2].p_value = ret[1].p_value
        /\ ret[2].p1 = ret[1].p2
        /\ ret[2].p2 = ret[1].p1

C6_Witness ==
    /\ pc = "swapped"
    /\ ZValid(args)
    /\ FLt(Zero, ret[1].z)
    /\ FLt(ret[2].z, Zero)

TooSmall(a) == Len(dropna(a.col1)) < 2 \/ Len(dropna(a.col2)) < 2

\* C5: the mean comparison raises an error, and prints no verdict, whenever
\* a sample has fewer than 2 values once missing entries are dropped.
C5_InsufficientDataRaises ==
    (pc = "done" /\ args.tipo = "Numerica" /\ TooSmall(args)) =>
        shown.exc # NoExc

Identical(a) == dropna(a.col1) = dropna(a.col2) /\ Len(dropna(a.col1)) >= 2

\* C7: the mean comparison of two identical samples of at least 2 values,
\* zero variance included, gives t = 0, p = 1 and equal means.
C7_IdenticalNeutral ==
    (pc = "done" /\ args.tipo = "Numerica" /\ Identical(args)) =>
        /\ shown.stat = Zero
        /\ shown.p_val.sq = Zero
        /\ shown.est1 = shown.est2

\* C8: in both branches the result is reported significant exactly when
\* p < 0.05, and then with direction "aumentou" exactly when the second
\* estimate is the greater and "diminuiu" exactly when it is the smaller;
\* a result that is not significant carries no direction.
C8_VerdictDirection ==
    (pc = "done" /\ shown.exc = NoExc) =>
        /\ shown.significant => TRUE \in SigOutcomes(shown.p_val)
        /\ ~shown.significant => FALSE \in SigOutcomes(shown.p_val)
        /\ shown.significant =>
              /\ shown.direcao = "aumentou" <=> FGt(shown.est2, shown.est1)
              /\ shown.direcao = "diminuiu" <=> FLt(shown.est2, shown.est1)
              /\ shown.direcao \in {"aumentou", "diminuiu"}
        /\ ~shown.significant => shown.direcao = NoDirecao

C8_Witness ==
    /\ pc = "done"
    /\ shown.kind = "t"
    /\ shown.significant
    /\ ~IsInf(shown.stat)
    /\ shown.direcao = "aumentou"
    /\ FGt(shown.est2, shown.est1)

InRange(r) == r.periodo \in Decades /\ YearIn(r.year, 1991, 2020)

AllInRange(rows) == \A i \in 1..Len(rows) : InRange(rows[i])

\* C2: no row whose year is missing or outside [1991,2020] is in the
\* dataframe load_data returns, in df_unique, in a group of any chart or in
\* either sample of a comparison: every such row carries a decade label.
C2_OnlyDecadeRows ==
    (pc = "rendered" /\ ~df.none) =>
        /\ AllInRange(df.rows)
        /\ AllInRange(df_unique)
        /\ AllInRange(shown.df_d1) /\ AllInRange(shown.df_d2)
        /\ shown.tabs.periodo_keys \subseteq Decades
        /\ \A k \in shown.tabs.genre_keys : k[1] \in Decades
        /\ \A y \in shown.tabs.year_keys : YearIn(y, 1991, 2020)

C2_Witness ==
    /\ pc = "rendered"
    /\ \E i \in 1..Len(csv.rows) : get_period(year_of(csv.rows[i].track_album_release_date)) = Outros
    /\ shown.kind = "test"
    /\ Len(df.rows) = 2
    /\ shown.tabs.periodo_keys = {P1, P2}

\* C9: whatever was loaded and selected, the arguments the proportion button
\* passes to z_test_proportions have total1 >= 1, total2 >= 1,
\* 0 <= count1 <= total1 and 0 <= count2 <= total2.
C9_ZArgsValid ==
    (pc = "rendered" /\ shown.test.kind = "z") =>
        LET a == shown.test.zargs
        IN  /\ a[2] >= 1 /\ a[4] >= 1
            /\ 0 <= a[1] /\ a[1] <= a[2]
            /\ 0 <= a[3] /\ a[3] <= a[4]
            /\ shown.test.exc = NoExc

C9_Witness ==
    /\ pc = "rendered"
    /\ shown.test.kind = "z"
    /\ shown.test.zargs[1] = 1
    /\ shown.test.zargs[2] = 1
    /\ shown.test.zargs[3] = 1
    /\ shown.test.zargs[4] = 2

TrackSet(rows) == {rows[i].track_id : i \in 1..Len(rows)}

\* C10: a test is only computed for two different decades, on two samples
\* that are rows of df_unique of those decades and share no track_id; equal
\* decades give the warning and no test.
C10_DisjointSamples ==
    (pc = "rendered" /\ shown.kind \in {"warning", "idle", "test", "exception"}) =>
        /\ shown.decada_1 = shown.decada_2 => shown.kind = "warning" /\ shown.test = NoTest
        /\ shown.test # NoTest =>
              /\ shown.decada_1 # shown.decada_2
              /\ shown.decada_1 \in Decades /\ shown.decada_2 \in Decades
              /\ TrackSet(shown.df_d1) \cap TrackSet(shown.df_d2) = {}
              /\ \A i \in 1..Len(shown.df_d1) : shown.df_d1[i].periodo = shown.decada_1
              /\ \A i \in 1..Len(shown.df_d2) : shown.df_d2[i].periodo = shown.decada_2
              /\ shown.df_d1 # <<>> /\ shown.df_d2 # <<>>

C10_Witness ==
    /\ pc = "rendered"
    /\ shown.kind = "test"
    /\ Len(csv.rows) = 3
    /\ csv.rows[1].track_id = csv.rows[2].track_id
    /\ get_period(year_of(csv.rows[1].track_album_release_date)) = P1
    /\ get_period(year_of(csv.rows[2].track_album_release_date)) = P2
    /\ TrackSet(shown.df_d1) # {}
    /\ TrackSet(shown.df_d2) # {}

====
